---- MODULE Spec2Model ----
(***************************************************************************)
(* Model of the Telegram scraping pipeline of threatInspect:               *)
(*   telegram_scrapper.py  fetch -> translate -> batch upsert -> backfill  *)
(*   scrapper.py           fetch -> batch upsert                           *)
(* The store (table scraped_messages) outlives a run; each run is one      *)
(* process executing main() of one of the two scripts.                     *)
(***************************************************************************)
EXTENDS Integers, Sequences, FiniteSets, TLC

(* ------------------------------ bounds --------------------------------- *)
\* messages the channels hold in all, over every run explored
MaxYield == 2
\* rows per statement issued by execute_values (psycopg2's page_size,
\* default 100, scaled down so that a batch spans several statements)
PageSize == 1

(* --------------------------- external values --------------------------- *)
\* Python's None for message.message
None == "<None>"
\* SQL NULL
NULL == "<NULL>"

\* telegram_config["channels"], in configuration order
channels == <<"chA", "chB">>

\* message texts a channel can carry
Texts == {"hola", "hello"}
RawTexts == Texts \cup {"", None}

\* message.date values: calendar day, second of day, microsecond
Dates ==
  { [day |-> 1, sec |-> 10, usec |-> 0],
    [day |-> 1, sec |-> 10, usec |-> 7] }

RawMessages == [message : RawTexts, date : Dates]

\* config.get("devmode", 0) as the JSON value found in config.json
DevmodeValues == {"absent", "0", "1", "2", "true"}

Scripts == {"telegram_scrapper", "scrapper"}

(* ------------------------- Python value helpers ------------------------ *)
\* truth value of a text (None and "" are falsy)
Truthy(text) == text \notin {"", None, NULL}

\* Python's  v == 1  for a JSON value read with default 0 (True == 1 holds)
EqualsOne(v) == v \in {"1", "true"}

\* message.date.strftime("%Y-%m-%d")
strftime_date(d) == d.day

\* message.date.strftime("%H:%M:%S")
strftime_time(d) == d.sec

Take(s, n) == IF Len(s) <= n THEN s ELSE SubSeq(s, 1, n)

\* dict.get(key, default)
Get(msg, key, default) == IF key \in DOMAIN msg THEN msg[key] ELSE default

(* --------------------------- translation ------------------------------- *)
\* langdetect.detect
detect(text) == IF text = "hello" THEN "en" ELSE "es"

\* the backend's English rendering of a text
backend_translate(text) == IF text = "hola" THEN "hello" ELSE text

\* what one call of the adapter can meet
Outcomes == {"ok", "detect_raises", "translate_raises"}

detect_and_translate_NoFallback(text, outcome) ==
  IF ~Truthy(text) THEN ""
  ELSE IF outcome = "detect_raises" THEN ""
  ELSE IF detect(text) # "en"
       THEN IF outcome = "translate_raises" THEN "" ELSE backend_translate(text)
       ELSE text

\* telegram_scrapper.detect_and_translate
detect_and_translate(text, outcome) ==
  IF ~Truthy(text) THEN ""
  ELSE IF outcome = "detect_raises" THEN text
  ELSE IF detect(text) # "en"
       THEN IF outcome = "translate_raises" THEN text ELSE backend_translate(text)
       ELSE text

\* whether a call with this outcome ended in the except branch
Raised(text, outcome) ==
  /\ Truthy(text)
  /\ \/ outcome = "detect_raises"
     \/ outcome = "translate_raises" /\ detect(text) # "en"

\* str.strip
strip(text) == IF text = " hello " THEN "hello" ELSE text

\* what translator.translate of the translate library answers: the English
\* text, possibly with surrounding blanks
Translator_translate(text, outcome) ==
  IF outcome = "ok_padded" THEN " hello " ELSE backend_translate(text)

\* scrapper.translate_text (to_language = "en")
translate_text(text, outcome) ==
  IF ~Truthy(text) THEN ""
  ELSE IF outcome \in {"ok", "ok_padded"}
       THEN strip(Translator_translate(text, outcome))
       ELSE text

(* ------------------------------ records -------------------------------- *)
\* the dict appended by fetch_messages_from_channel
NewRecord(message, channel_identifier) ==
  [ security_area |-> "Unknown",
    region |-> "Unknown",
    city_town_area |-> "Unknown",
    event_date |-> strftime_date(message.date),
    event_time |-> strftime_time(message.date),
    source_message_original |-> message.message,
    source_message_translated |-> "",
    target_group |-> "",
    perpetrator_group |-> "",
    threat_type |-> "Unknown",
    incident_type |-> "",
    no_of_explosives |-> "",
    analysis_comments |-> "",
    total_casualties |-> 0,
    deaths |-> 0,
    injuries |-> 0,
    source_channel |-> channel_identifier ]

RECURSIVE RecordsOf_KeepEmpty(_, _)
RecordsOf_KeepEmpty(raw, channel_identifier) ==
  IF raw = <<>> THEN <<>>
  ELSE IF Head(raw).message # None
       THEN <<NewRecord(Head(raw), channel_identifier)>>
              \o RecordsOf_KeepEmpty(Tail(raw), channel_identifier)
       ELSE RecordsOf_KeepEmpty(Tail(raw), channel_identifier)

\* the loop over client.iter_messages: one record per message with text
RECURSIVE RecordsOf(_, _)
RecordsOf(raw, channel_identifier) ==
  IF raw = <<>> THEN <<>>
  ELSE IF Truthy(Head(raw).message)
       THEN <<NewRecord(Head(raw), channel_identifier)>>
              \o RecordsOf(Tail(raw), channel_identifier)
       ELSE RecordsOf(Tail(raw), channel_identifier)

\* scrapper.fetch_messages_from_channel: message_limit
message_limit(devmode) == IF EqualsOne(devmode) THEN 1 ELSE 100

\* the limit a script passes to client.iter_messages
limit_of(script, devmode) ==
  IF script = "scrapper" THEN message_limit(devmode) ELSE 100

(* ------------------------------- store --------------------------------- *)
\* the tuple insert_messages builds for one msg, as a row with its id
RowOf(msg, id) ==
  [ id |-> id,
    security_area |-> Get(msg, "security_area", "Unknown"),
    region |-> Get(msg, "region", "Unknown"),
    city_town_area |-> Get(msg, "city_town_area", "Unknown"),
    event_date |-> Get(msg, "event_date", NULL),
    event_time |-> Get(msg, "event_time", NULL),
    source_message_original |-> Get(msg, "source_message_original", NULL),
    source_message_translated |-> Get(msg, "source_message_translated", ""),
    target_group |-> Get(msg, "target_group", ""),
    perpetrator_group |-> Get(msg, "perpetrator_group", ""),
    threat_type |-> Get(msg, "threat_type", "Unknown"),
    incident_type |-> Get(msg, "incident_type", ""),
    no_of_explosives |-> Get(msg, "no_of_explosives", ""),
    analysis_comments |-> Get(msg, "analysis_comments", ""),
    total_casualties |-> Get(msg, "total_casualties", 0),
    deaths |-> Get(msg, "deaths", 0),
    injuries |-> Get(msg, "injuries", 0),
    source_channel |-> Get(msg, "source_channel", NULL) ]

\* the conflict target of the INSERT
DedupKey(r) ==
  <<r.source_channel, r.event_date, r.event_time, r.source_message_original>>

Conflict_Never(r, q) == FALSE

\* ON CONFLICT (source_channel, event_date, event_time, source_message_original)
Conflict(r, q) == DedupKey(r) = DedupKey(q)

\* INSERT ... VALUES vals ON CONFLICT ... DO NOTHING, applied to the rows the
\* transaction sees; ids come from the table's sequence
RECURSIVE InsertValues(_, _, _)
InsertValues(rows, vals, id) ==
  IF vals = <<>> THEN [rows |-> rows, id |-> id]
  ELSE LET new == RowOf(Head(vals), id)
       IN IF \E q \in rows : Conflict(new, q)
          THEN InsertValues(rows, Tail(vals), id)
          ELSE InsertValues(rows \cup {new}, Tail(vals), id + 1)

untranslated_OnlyNull(rows) ==
  {<<r.id, r.source_message_original>> : r \in
      {q \in rows : q.source_message_translated = NULL}}

\* SELECT id, source_message_original ... WHERE source_message_translated
\* IS NULL OR source_message_translated = ''
untranslated(rows) ==
  {<<r.id, r.source_message_original>> : r \in
      {q \in rows : q.source_message_translated \in {NULL, ""}}}

UpdateTranslated_AlsoOriginal(rows, message_id, translated_text) ==
  {IF r.id = message_id
     THEN [r EXCEPT !.source_message_translated = translated_text,
                    !.source_message_original = translated_text]
     ELSE r : r \in rows}

\* UPDATE scraped_messages SET source_message_translated = %s WHERE id = %s
UpdateTranslated(rows, message_id, translated_text) ==
  {IF r.id = message_id
     THEN [r EXCEPT !.source_message_translated = translated_text]
     ELSE r : r \in rows}

(* ------------------------------- state --------------------------------- *)
VARIABLES
  script,                 \* which main() this run executes
  devmode,                \* config.get("devmode", 0)
  pc,                     \* position of main()
  yielded,                \* messages the channels have held so far
  error,                  \* the exception that ended main(), or "none"
  chanIdx,                \* index of the next channel of fetch_all_messages
  all_messages,           \* the in-memory batch
  fetched,                \* the batch as fetch_all_messages returned it
  trIdx,                  \* index of the next msg of main's translation loop
  store,                  \* committed rows of scraped_messages
  nextId,                 \* next value of the id sequence
  txRows,                 \* rows the transaction of insert_messages sees
  pageIdx,                \* first value of the next page of execute_values
  untranslated_messages,  \* rows fetched by the backfill SELECT, not yet done
  lastFetch,              \* the fetch_messages_from_channel call just made
  lastCall,               \* the detect_and_translate call just made (id: the
                          \* row it was made for in the backfill, else 0)
  storeBefore,            \* store when insert_messages was entered
  passStart,              \* store when the backfill SELECT ran
  passBackendOk,          \* no translation raised in this backfill pass
  passDbOk                \* no UPDATE failed in this backfill pass

vars ==
  << script, devmode, pc, yielded, error, chanIdx, all_messages, fetched,
     trIdx, store,
     nextId, txRows, pageIdx, untranslated_messages, lastFetch, lastCall,
     storeBefore, passStart, passBackendOk, passDbOk >>

NoFetch == [identifier |-> "", limit |-> 0, raw |-> <<>>, msgs |-> <<>>]
NoCall == [id |-> 0, text |-> "", outcome |-> "none", result |-> ""]

\* the message histories a channel can hold, newest first
Histories(longest) == UNION {[1..n -> RawMessages] : n \in 0..longest}

Init ==
  /\ script = "telegram_scrapper"
  /\ devmode = "absent"
  /\ pc = "idle"
  /\ yielded = 0
  /\ error = "none"
  /\ chanIdx = 1
  /\ all_messages = <<>>
  /\ fetched = <<>>
  /\ trIdx = 1
  /\ store = {}
  /\ nextId = 1
  /\ txRows = {}
  /\ pageIdx = 1
  /\ untranslated_messages = {}
  /\ lastFetch = NoFetch
  /\ lastCall = NoCall
  /\ storeBefore = {}
  /\ passStart = {}
  /\ passBackendOk = TRUE
  /\ passDbOk = TRUE

(* ------------------------------ actions -------------------------------- *)
\* process start: load_config, create_db_connection, client.start
StartRun ==
  /\ pc \in {"idle", "done", "aborted"}
  /\ script' \in Scripts
  /\ devmode' \in DevmodeValues
  /\ pc' = "fetch"
  /\ error' = "none"
  /\ chanIdx' = 1
  /\ all_messages' = <<>>
  /\ fetched' = <<>>
  /\ trIdx' = 1
  /\ txRows' = {}
  /\ pageIdx' = 1
  /\ untranslated_messages' = {}
  /\ lastFetch' = NoFetch
  /\ lastCall' = NoCall
  /\ storeBefore' = store
  /\ passStart' = {}
  /\ passBackendOk' = TRUE
  /\ passDbOk' = TRUE
  /\ UNCHANGED <<yielded, store, nextId>>

\* fetch_messages_from_channel: client.get_entity raises, [] is returned
FetchEntityError ==
  /\ pc = "fetch"
  /\ chanIdx <= Len(channels)
  /\ lastFetch' = [identifier |-> channels[chanIdx],
                   limit |-> limit_of(script, devmode),
                   raw |-> <<>>, msgs |-> <<>>]
  /\ chanIdx' = chanIdx + 1
  /\ UNCHANGED <<fetched, script, devmode, pc, yielded, error, all_messages, trIdx, store,
                 nextId, txRows, pageIdx, untranslated_messages, lastCall,
                 storeBefore, passStart, passBackendOk,
                 passDbOk>>

\* fetch_messages_from_channel: the iteration over client.iter_messages
\* raises; nothing catches it up to asyncio.run(main())
FetchIterError ==
  /\ pc = "fetch"
  /\ chanIdx <= Len(channels)
  /\ lastFetch' = [identifier |-> channels[chanIdx],
                   limit |-> limit_of(script, devmode),
                   raw |-> <<>>, msgs |-> <<>>]
  /\ pc' = "aborted"
  /\ error' = "iter_messages"
  /\ UNCHANGED <<fetched, script, devmode, yielded, chanIdx, all_messages, trIdx, store,
                 nextId, txRows, pageIdx, untranslated_messages, lastCall,
                 storeBefore, passStart, passBackendOk,
                 passDbOk>>

\* fetch_messages_from_channel returns the records of the messages yielded;
\* fetch_all_messages extends all_messages with them
FetchChannel ==
  /\ pc = "fetch"
  /\ chanIdx <= Len(channels)
  /\ \E history \in Histories(MaxYield - yielded) :
       LET limit == limit_of(script, devmode)
           raw == Take(history, limit)
           msgs == RecordsOf(raw, channels[chanIdx])
       IN /\ lastFetch' = [identifier |-> channels[chanIdx], limit |-> limit,
                           raw |-> raw, msgs |-> msgs]
          /\ all_messages' = all_messages \o msgs
          /\ yielded' = yielded + Len(history)
  /\ chanIdx' = chanIdx + 1
  /\ UNCHANGED <<fetched, script, devmode, pc, error, trIdx, store, nextId,
                 txRows, pageIdx, untranslated_messages, lastCall, 
                 storeBefore, passStart, passBackendOk, passDbOk>>

\* fetch_all_messages returns; telegram_scrapper goes on to translate,
\* scrapper to insert_messages
FetchReturn ==
  /\ pc = "fetch"
  /\ chanIdx > Len(channels)
  /\ pc' = IF script = "telegram_scrapper" THEN "translate" ELSE "insert"
  /\ fetched' = all_messages
  /\ lastFetch' = NoFetch
  /\ txRows' = store
  /\ storeBefore' = store
  /\ UNCHANGED <<script, devmode, yielded, error, chanIdx, all_messages, trIdx,
                 store, nextId, pageIdx, untranslated_messages, lastCall,
                 passStart, passBackendOk, passDbOk>>

\* main: one iteration of "for msg in messages"
Translate ==
  /\ pc = "translate"
  /\ trIdx <= Len(all_messages)
  /\ LET msg == all_messages[trIdx]
     IN IF ~Truthy(Get(msg, "source_message_translated", None))
        THEN \E outcome \in Outcomes :
               LET text == msg["source_message_original"]
                   result == detect_and_translate(text, outcome)
               IN /\ all_messages' = [all_messages EXCEPT
                        ![trIdx]["source_message_translated"] = result]
                  /\ lastCall' = [id |-> 0, text |-> text,
                                  outcome |-> outcome, result |-> result]
        ELSE UNCHANGED <<fetched, all_messages, lastCall>>
  /\ trIdx' = trIdx + 1
  /\ UNCHANGED <<fetched, script, devmode, pc, yielded, error, chanIdx, store, nextId,
                 txRows, pageIdx, untranslated_messages, lastFetch,
                 storeBefore, passStart, passBackendOk, passDbOk>>

\* main: the translation loop is over, insert_messages is called
TranslateDone ==
  /\ pc = "translate"
  /\ trIdx > Len(all_messages)
  /\ pc' = "insert"
  /\ lastCall' = NoCall
  /\ UNCHANGED <<fetched, script, devmode, yielded, error, chanIdx, all_messages, trIdx,
                 store, nextId, txRows, pageIdx, untranslated_messages,
                 lastFetch, storeBefore, passStart,
                 passBackendOk, passDbOk>>

\* where main() goes after insert_messages
AfterInsert == IF script = "telegram_scrapper" THEN "select" ELSE "done"

\* insert_messages: "if values:" is false
InsertNothing ==
  /\ pc = "insert"
  /\ all_messages = <<>>
  /\ pc' = AfterInsert
  /\ UNCHANGED <<fetched, script, devmode, yielded, error, chanIdx, all_messages, trIdx,
                 store, nextId, txRows, pageIdx, untranslated_messages,
                 lastFetch, lastCall, storeBefore,
                 passStart, passBackendOk, passDbOk>>

\* the values of the page execute_values sends next
Page == SubSeq(all_messages, pageIdx,
               IF pageIdx + PageSize - 1 <= Len(all_messages)
               THEN pageIdx + PageSize - 1 ELSE Len(all_messages))

ExecutePage_AutoCommit ==
  /\ pc = "insert"
  /\ all_messages # <<>>
  /\ pageIdx <= Len(all_messages)
  /\ LET res == InsertValues(txRows, Page, nextId)
     IN /\ txRows' = res.rows
        /\ store' = res.rows
        /\ nextId' = res.id
  /\ pageIdx' = pageIdx + PageSize
  /\ UNCHANGED <<fetched, script, devmode, pc, yielded, error, chanIdx, all_messages,
                 trIdx, untranslated_messages, lastFetch, lastCall,
                 storeBefore, passStart, passBackendOk, passDbOk>>

\* insert_messages: execute_values runs the INSERT for one page of values
\* inside the open transaction
ExecutePage ==
  /\ pc = "insert"
  /\ all_messages # <<>>
  /\ pageIdx <= Len(all_messages)
  /\ LET res == InsertValues(txRows, Page, nextId)
     IN /\ txRows' = res.rows
        /\ nextId' = res.id
  /\ pageIdx' = pageIdx + PageSize
  /\ UNCHANGED <<fetched, script, devmode, pc, yielded, error, chanIdx, all_messages,
                 trIdx, store, untranslated_messages, lastFetch, lastCall,
                 storeBefore, passStart, passBackendOk, passDbOk>>

\* insert_messages: the store raises in execute_values or in commit; the
\* exception ends main() and the open transaction is never committed
InsertError ==
  /\ pc = "insert"
  /\ all_messages # <<>>
  /\ pc' = "aborted"
  /\ error' = "insert"
  /\ txRows' = store
  /\ UNCHANGED <<fetched, script, devmode, yielded, chanIdx, all_messages, trIdx, store,
                 nextId, pageIdx, untranslated_messages, lastFetch, lastCall,
                 storeBefore, passStart, passBackendOk,
                 passDbOk>>

\* insert_messages: conn.commit()
Commit ==
  /\ pc = "insert"
  /\ all_messages # <<>>
  /\ pageIdx > Len(all_messages)
  /\ store' = txRows
  /\ pc' = AfterInsert
  /\ UNCHANGED <<fetched, script, devmode, yielded, error, chanIdx, all_messages, trIdx,
                 nextId, txRows, pageIdx, untranslated_messages, lastFetch,
                 lastCall, storeBefore, passStart,
                 passBackendOk, passDbOk>>

\* main: the backfill SELECT and fetchall
SelectUntranslated ==
  /\ pc = "select"
  /\ untranslated_messages' = untranslated(store)
  /\ passStart' = store
  /\ pc' = "backfill"
  /\ UNCHANGED <<fetched, script, devmode, yielded, error, chanIdx, all_messages, trIdx,
                 store, nextId, txRows, pageIdx, lastFetch, lastCall,
                 storeBefore, passBackendOk, passDbOk>>

\* main: one iteration of "for msg_id, original_text in
\* untranslated_messages"; update_translation_in_db swallows a failed UPDATE
BackfillRow ==
  /\ pc = "backfill"
  /\ \E m \in untranslated_messages, outcome \in Outcomes, db \in {"ok", "raises"} :
       LET translated_text == detect_and_translate(m[2], outcome)
       IN /\ untranslated_messages' = untranslated_messages \ {m}
          /\ lastCall' = [id |-> m[1], text |-> m[2], outcome |-> outcome,
                          result |-> translated_text]
          /\ store' = IF db = "ok"
                      THEN UpdateTranslated(store, m[1], translated_text)
                      ELSE store
          /\ passBackendOk' = (passBackendOk /\ ~Raised(m[2], outcome))
          /\ passDbOk' = (passDbOk /\ db = "ok")
  /\ UNCHANGED <<fetched, script, devmode, pc, yielded, error, chanIdx, all_messages,
                 trIdx, nextId, txRows, pageIdx, lastFetch, 
                 storeBefore, passStart>>

\* main: the backfill loop is over, conn.close()
BackfillDone ==
  /\ pc = "backfill"
  /\ untranslated_messages = {}
  /\ pc' = "done"
  /\ lastCall' = NoCall
  /\ UNCHANGED <<fetched, script, devmode, yielded, error, chanIdx, all_messages, trIdx,
                 store, nextId, txRows, pageIdx, untranslated_messages,
                 lastFetch, storeBefore, passStart,
                 passBackendOk, passDbOk>>

Next ==
  \/ StartRun
  \/ FetchEntityError
  \/ FetchIterError
  \/ FetchChannel
  \/ FetchReturn
  \/ Translate
  \/ TranslateDone
  \/ InsertNothing
  \/ ExecutePage
  \/ InsertError
  \/ Commit
  \/ SelectUntranslated
  \/ BackfillRow
  \/ BackfillDone

Spec == Init /\ [][Next]_vars

(* ------------------------------ properties ----------------------------- *)
\* truth value of a JSON configuration value (an absent devmode reads as 0)
JsonTruthy(v) == v \notin {"absent", "0", "false", "null"}

\* texts in the target language
IsEnglish(text) == text \in {"hello"}

\* a row without its surrogate id
Content(r) == [f \in (DOMAIN r) \ {"id"} |-> r[f]]

ContentOf(rows) == {Content(r) : r \in rows}

\* insert_messages has returned in this run
Inserted == pc \in {"select", "backfill", "done"}

\* insert_messages has just returned: nothing has touched the store since
JustInserted ==
  \/ pc = "select"
  \/ pc = "done" /\ script = "scrapper"

\* the rows of rows that some msg of vals conflicts with
Stored(vals, rows) ==
  {i \in DOMAIN vals : \E q \in rows : Conflict(RowOf(vals[i], 0), q)}

\* C1: once insert_messages has committed a batch, inserting the same batch
\* again leaves the store with exactly the same rows (count and content), so
\* two inserts in a row equal one; a msg whose dedup tuple is stored is skipped
\* without an error.
C1_DedupIdempotence ==
  Inserted =>
    LET again == InsertValues(store, all_messages, nextId)
    IN /\ again.rows = store
       /\ again.id = nextId
       /\ Cardinality(ContentOf(again.rows)) = Cardinality(store)

\* a committed insert of a non-empty batch all of whose msgs were stored
\* already: the store is as it was
C1_Witness ==
  /\ JustInserted
  /\ all_messages # <<>>
  /\ Stored(all_messages, storeBefore) = DOMAIN all_messages
  /\ store = storeBefore
  /\ store # {}

\* C2: a channel whose entity resolution or message iteration fails is
\* contained: main() is not ended by it, the remaining channels are fetched.
C2_FetchFailureContained ==
  ~(pc = "aborted" /\ error \in {"get_entity", "iter_messages"})

HasText(m) == Truthy(m.message)

\* C3: when detection or the backend raises on a non-empty text, the adapter
\* returns that text unchanged (detect_and_translate and translate_text
\* alike), and the batch main() hands to insert_messages has the records
\* fetch_all_messages returned, in order, differing at most in
\* source_message_translated.
C3_TranslationFallback ==
  /\ Raised(lastCall.text, lastCall.outcome) => lastCall.result = lastCall.text
  /\ \A t \in Texts, o \in Outcomes \ {"ok"} : translate_text(t, o) = t
  /\ pc \in {"translate", "insert"} =>
       /\ Len(all_messages) = Len(fetched)
       /\ \A i \in DOMAIN fetched :
            [all_messages[i] EXCEPT !["source_message_translated"] = ""]
              = fetched[i]

\* the translation of a Spanish msg has just raised in main()'s loop and the
\* msg is still in the batch, its translated field holding the original
C3_Witness ==
  /\ pc = "translate"
  /\ trIdx > 1
  /\ Raised(lastCall.text, lastCall.outcome)
  /\ lastCall.text = "hola"
  /\ all_messages[trIdx - 1]["source_message_translated"] = "hola"
  /\ Len(all_messages) = Len(fetched)

\* what a finished backfill pass leaves of the rows it started from: those
\* with a null or empty translation now have one, the others are as they were
Healed ==
  \A r \in passStart :
    IF r.source_message_translated \in {NULL, ""}
    THEN \E q \in store :
           q.id = r.id /\ Truthy(q.source_message_translated)
    ELSE r \in store

BackfillOver == pc = "done" /\ script = "telegram_scrapper"

C5_EmptyTextExclusion ==
  /\ LET texts == SelectSeq(lastFetch.raw, HasText)
     IN /\ Len(lastFetch.msgs) = Len(texts)
        /\ \A k \in DOMAIN texts :
             /\ lastFetch.msgs[k]["source_message_original"] = texts[k].message
             /\ lastFetch.msgs[k]["event_date"] = strftime_date(texts[k].date)
             /\ lastFetch.msgs[k]["source_channel"] = lastFetch.identifier
  /\ \A i \in DOMAIN all_messages :
       Truthy(all_messages[i]["source_message_original"])
  /\ \A r \in store \cup txRows : Truthy(r.source_message_original)

\* a fetch that met a message without text and one with text, and returned
\* one record
C5_Witness ==
  /\ pc = "fetch"
  /\ Len(lastFetch.raw) = 2
  /\ \E i \in DOMAIN lastFetch.raw : ~HasText(lastFetch.raw[i])
  /\ Len(lastFetch.msgs) = 1
  /\ all_messages # <<>>

\* C6: source_message_translated of every msg of the batch and of every row
\* is empty or an English text.
C6_TranslatedEmptyOrEnglish ==
  /\ \A i \in DOMAIN all_messages :
       \/ all_messages[i]["source_message_translated"] = ""
       \/ IsEnglish(all_messages[i]["source_message_translated"])
  /\ \A r \in store :
       \/ r.source_message_translated = ""
       \/ IsEnglish(r.source_message_translated)

\* C7: a record whose translation attempt raised stays untranslated: the msg
\* main() has just failed to translate keeps an empty translated field, and
\* the row the backfill has just failed to translate is still selected by
\* the backfill query.
C7_FailedStaysEligible ==
  /\ (pc = "translate" /\ trIdx > 1 /\ Raised(lastCall.text, lastCall.outcome))
       => ~Truthy(all_messages[trIdx - 1]["source_message_translated"])
  /\ (pc = "backfill" /\ lastCall.id # 0
        /\ Raised(lastCall.text, lastCall.outcome))
       => <<lastCall.id, lastCall.text>> \in untranslated(store)

\* C8: every step keeps every stored row, with the same id and the same
\* value in every column but source_message_translated.
C8_OnlyTranslatedChanges ==
  [][\A r \in store :
       \E q \in store' :
         /\ q.id = r.id
         /\ \A f \in (DOMAIN r) \ {"source_message_translated"} : q[f] = r[f]
    ]_vars

\* a run whose batch held a msg already stored (the upsert skipped it) and
\* whose backfill then changed the translation of a row
C8_Witness ==
  /\ pc \in {"backfill", "done"}
  /\ Stored(all_messages, storeBefore) # {}
  /\ \E r \in passStart : \E q \in store :
       /\ q.id = r.id
       /\ q.source_message_translated # r.source_message_translated

\* C9: the store shows nothing of a batch before insert_messages commits and
\* nothing at all if it raises; when it returns, the store is the result of
\* the whole batch inserted at once (all of its non-conflicting msgs), and an
\* empty batch leaves the store as it was.
C9_BatchAtomicity ==
  /\ pc = "insert" => store = storeBefore
  /\ (pc = "aborted" /\ error = "insert") => store = storeBefore
  /\ JustInserted =>
       LET created == Cardinality(store) - Cardinality(storeBefore)
           whole == InsertValues(storeBefore, all_messages, nextId - created)
       IN /\ store = whole.rows
          /\ all_messages = <<>> => store = storeBefore

\* insert_messages raised after a page that had inserted a new row: the store
\* is as it was before the call
C9_Witness ==
  /\ pc = "aborted"
  /\ error = "insert"
  /\ pageIdx > 1
  /\ Stored(all_messages, storeBefore) = {}
  /\ store = storeBefore

====
